---- MODULE Spec2Model ----
(***************************************************************************)
(* Model of the custom-shortcuts page of cosmic-settings                   *)
(* (cosmic-settings/src/pages/input/keyboard/shortcuts/custom.rs):         *)
(* the add-shortcut draft, the submit handler, the replace queue and the   *)
(* keyboard configuration they mutate.                                     *)
(***************************************************************************)
EXTENDS Integers, Sequences, FiniteSets, TLC

(* ------------------------------ bounds --------------------------------- *)
\* largest number of rows the draft is allowed to grow to
MaxRows == 2
\* largest length of the replace queue at which a submit is still taken
MaxQueue == 2
\* largest number of times the draft is opened
MaxOpens == 2
\* largest number of entries of a configuration the listing is rebuilt from
MaxEntries == 3

(* ------------------------------ values --------------------------------- *)
\* Option: None, or Some(x)
None == <<>>
Some(x) == <<x>>
Unwrap(opt) == opt[1]

\* Texts are sequences of characters; a key text is a sequence of the tokens
\* that '+' separates.
NameInputs == { <<" ", "n">> }
TaskInputs == { <<"t", " ">> }
KeyTexts == { <<>>, <<"Super", "l">>, <<"k">>, <<"bogus">> }

\* tokens the binding parser knows
ModifierNames == { "Super" }
KeyNames == { "l", "k" }

\* Action::Spawn(task)
Spawn(task) == [kind |-> "Spawn", task |-> task]
\* some action of another kind already present in the configuration
SystemAction == [kind |-> "System", task |-> <<>>]

(* ------------------------------ str::trim ------------------------------ *)
IsWhitespace(c) == c = " "

RECURSIVE trim_start(_)
trim_start(s) ==
    IF s # <<>> /\ IsWhitespace(Head(s)) THEN trim_start(Tail(s)) ELSE s

RECURSIVE trim_end(_)
trim_end(s) ==
    IF s # <<>> /\ IsWhitespace(s[Len(s)])
        THEN trim_end(SubSeq(s, 1, Len(s) - 1))
        ELSE s

trim(s) == trim_end(trim_start(s))

(* ------------------------- Binding::from_str --------------------------- *)
\* The key named by the last non-modifier token of the text, None if none.
RECURSIVE LastKey(_)
LastKey(text) ==
    IF text = <<>> THEN None
    ELSE IF text[Len(text)] \in KeyNames THEN Some(text[Len(text)])
    ELSE LastKey(SubSeq(text, 1, Len(text) - 1))

\* A binding is a modifier set and a key, with an optional description that
\* is not part of its identity.
from_str(text) ==
    LET known == \A i \in 1..Len(text) : text[i] \in ModifierNames \cup KeyNames
        key == LastKey(text)
    IN IF known /\ key # None
         THEN [ok |-> TRUE,
               binding |-> [modifiers |-> { text[i] : i \in { j \in 1..Len(text) :
                                                    text[j] \in ModifierNames } },
                            key |-> key,
                            description |-> None]]
         ELSE [ok |-> FALSE,
               binding |-> [modifiers |-> {}, key |-> None, description |-> None]]

is_set(binding) == binding.key # None

\* structural equality of bindings: the description is ignored
SameBinding(a, b) == a.modifiers = b.modifiers /\ a.key = b.key

\* the identity of a binding
KeyOf(binding) == [modifiers |-> binding.modifiers, key |-> binding.key]

(* ------------------------------- Slab ---------------------------------- *)
\* A slab is a vector of slots, each occupied by a value or vacant and
\* pointing to the next free key, with the number of occupied slots and the
\* head of the free list.  Keys count from 0; slot k is entries[k + 1].
Occupied(val) == [occupied |-> TRUE, val |-> val, next |-> 0]
Vacant(next) == [occupied |-> FALSE, val |-> <<>>, next |-> next]

SlabNew == [entries |-> <<>>, len |-> 0, next |-> 0]

SlabContains(slab, key) ==
    /\ key \in 0..(Len(slab.entries) - 1)
    /\ slab.entries[key + 1].occupied

\* the keys of the occupied slots, which iteration visits in increasing order
SlabKeys(slab) == { k \in 0..(Len(slab.entries) - 1) : slab.entries[k + 1].occupied }

SlabGet(slab, key) == slab.entries[key + 1].val

SlabSet(slab, key, val) ==
    [slab EXCEPT !.entries[key + 1] = Occupied(val)]

\* the key the next insert is given
SlabVacantKey(slab) == slab.next

SlabInsert_appends(slab, val) ==
    [entries |-> Append(slab.entries, Occupied(val)),
     len |-> slab.len + 1,
     next |-> Len(slab.entries) + 1]

SlabInsert(slab, val) ==
    LET key == slab.next
    IN IF key = Len(slab.entries)
         THEN [entries |-> Append(slab.entries, Occupied(val)),
               len |-> slab.len + 1,
               next |-> key + 1]
         ELSE [entries |-> [slab.entries EXCEPT ![key + 1] = Occupied(val)],
               len |-> slab.len + 1,
               next |-> slab.entries[key + 1].next]

\* defined for an occupied key; the code panics otherwise
SlabRemove(slab, key) ==
    [entries |-> [slab.entries EXCEPT ![key + 1] = Vacant(slab.next)],
     len |-> slab.len - 1,
     next |-> key]

(* ------------------------------- state --------------------------------- *)
VARIABLES
    config,          \* the keyboard configuration: a sequence of entries
    replace_dialog,  \* Page::replace_dialog, the last element is the top
    active,          \* AddShortcut::active
    editing,         \* AddShortcut::editing
    name,            \* AddShortcut::name
    task,            \* AddShortcut::task
    keys,            \* AddShortcut::keys
    panicked,        \* a handler indexed or removed a vacant key of the slab
    opens,           \* how many times the draft was opened
    submitted,       \* a submit passed validation since the draft was opened
    queued_by,       \* for each entry of replace_dialog, the name and the
                     \* command of the draft when the submit queued it
    shortcut_models, \* the listing of the Model, rebuilt by Model::on_enter
    last             \* the message handled last and the path its handler took

vars == <<config, replace_dialog, active, editing, name, task, keys, panicked, opens,
          submitted, queued_by, shortcut_models, last>>

draft == <<active, editing, name, task, keys>>

(* ------------------------- the configuration --------------------------- *)
\* An entry of the configuration: a binding (with its description) and the
\* action it triggers.
Entry(binding, action) == [binding |-> binding, action |-> action]

\* Model::config_contains: the action that owns a structurally equal binding
config_contains_in(cfg, binding) ==
    IF \E i \in 1..Len(cfg) : SameBinding(cfg[i].binding, binding)
        THEN Some(cfg[CHOOSE i \in 1..Len(cfg) :
                        /\ SameBinding(cfg[i].binding, binding)
                        /\ \A j \in 1..(i - 1) :
                                ~SameBinding(cfg[j].binding, binding)].action)
        ELSE None

\* Model::config_add: the binding is put under the action; nothing is looked
\* up or removed first
config_add(cfg, action, binding) ==
    IF \E i \in 1..Len(cfg) :
            SameBinding(cfg[i].binding, binding) /\ cfg[i].action = action
        THEN cfg
        ELSE Append(cfg, Entry(binding, action))

\* Model::config_remove: the binding is deleted from wherever it lives
config_remove(cfg, binding) ==
    LET Keep(e) == ~SameBinding(e.binding, binding)
    IN SelectSeq(cfg, Keep)

\* super::localize_action: the label the dialog shows for an action
localize_action(action) == <<"label", action>>

\* the configuration the page is started on: one binding owned by an action
\* of another kind, the other bindings free
InitConfigs ==
    LET superl == from_str(<<"Super", "l">>).binding
    IN { << Entry(superl, SystemAction) >> }

(* ------------------------------ handlers ------------------------------ *)
\* the state a handler starts from
Snapshot ==
    [recorded |-> TRUE,
     config |-> config, replace_dialog |-> replace_dialog, active |-> active,
     editing |-> editing, name |-> name, task |-> task, keys |-> keys,
     queued_by |-> queued_by]

\* nothing recorded
NoSnapshot ==
    [recorded |-> FALSE,
     config |-> <<>>, replace_dialog |-> <<>>, active |-> FALSE,
     editing |-> None, name |-> <<>>, task |-> <<>>, keys |-> SlabNew,
     queued_by |-> <<>>]

\* what `last` records: the message, the path its handler took and, for the
\* handlers that open the draft, submit, decide a replace or add a row, the
\* state before it
Handled(msg, path, pre) == [msg |-> msg, path |-> path, pre |-> pre]

\* the texts of the rows in iteration order (increasing key)
RECURSIVE RowsFrom(_, _)
RowsFrom(slab, k) ==
    IF k >= Len(slab.entries) THEN <<>>
    ELSE IF slab.entries[k + 1].occupied
        THEN <<slab.entries[k + 1].val>> \o RowsFrom(slab, k + 1)
        ELSE RowsFrom(slab, k + 1)

Rows(slab) == RowsFrom(slab, 0)

\* Page::add_shortcut, on the configuration and the open flag
add_shortcut(st, binding) ==
    [active |-> st.queue # <<>>,
     config |-> config_add(st.config, Spawn(st.task),
                           [binding EXCEPT !.description = Some(st.name)]),
     queue |-> st.queue,
     name |-> st.name,
     task |-> st.task]

\* the second loop of Message::AddShortcut
RECURSIVE AddAll(_, _)
AddAll(st, addable) ==
    IF addable = <<>> THEN st
    ELSE AddAll(add_shortcut(st, Head(addable)), Tail(addable))

\* the check of Message::AddShortcut on the trimmed name and command
fields_empty_untrimmed(n, t) == n = <<>> \/ t = <<>>

fields_empty(n, t) == trim(n) = <<>> \/ trim(t) = <<>>

\* What the first loop of Message::AddShortcut does with one row: "skip" an
\* empty row, "abort" on a text that does not parse to a set binding, "queue"
\* a binding that has an owner, "add" any other.
classify_row_skips_invalid(text, cfg) ==
    IF text = <<>> THEN "skip"
    ELSE IF ~from_str(text).ok THEN "skip"
    ELSE IF ~is_set(from_str(text).binding) THEN "skip"
    ELSE IF config_contains_in(cfg, from_str(text).binding) # None THEN "queue"
    ELSE "add"

classify_row_empty_aborts(text, cfg) ==
    IF ~from_str(text).ok THEN "abort"
    ELSE IF ~is_set(from_str(text).binding) THEN "abort"
    ELSE IF config_contains_in(cfg, from_str(text).binding) # None THEN "queue"
    ELSE "add"

classify_row_adds_owned(text, cfg) ==
    IF text = <<>> THEN "skip"
    ELSE IF ~from_str(text).ok THEN "abort"
    ELSE IF ~is_set(from_str(text).binding) THEN "abort"
    ELSE "add"

classify_row(text, cfg) ==
    IF text = <<>> THEN "skip"
    ELSE IF ~from_str(text).ok THEN "abort"
    ELSE IF ~is_set(from_str(text).binding) THEN "abort"
    ELSE IF config_contains_in(cfg, from_str(text).binding) # None THEN "queue"
    ELSE "add"

\* The first loop of Message::AddShortcut over the rows: the replace queue is
\* pushed to as the rows are visited, the addable bindings are collected, and
\* the handler returns at the first row that does not parse.
RECURSIVE SubmitRows(_, _, _, _)
SubmitRows(rows, cfg, queue, addable) ==
    IF rows = <<>>
        THEN [aborted |-> FALSE, queue |-> queue, addable |-> addable]
    ELSE LET text == Head(rows)
             binding == from_str(text).binding
             action == Unwrap(config_contains_in(cfg, binding))
             what == classify_row(text, cfg)
         IN CASE what = "skip" -> SubmitRows(Tail(rows), cfg, queue, addable)
              [] what = "abort" ->
                    [aborted |-> TRUE, queue |-> queue, addable |-> addable]
              [] what = "queue" ->
                    SubmitRows(Tail(rows), cfg,
                               Append(queue, <<binding, action, localize_action(action)>>),
                               addable)
              [] what = "add" ->
                    SubmitRows(Tail(rows), cfg, queue, Append(addable, binding))

\* Vec::pop on the replace queue: what is left
pop_clears(queue) == <<>>

pop_head(queue) == Tail(queue)

pop(queue) == SubSeq(queue, 1, Len(queue) - 1)

\* the body of Message::ReplaceApply for the popped binding: it is removed
\* from its owner and added under the new action
replace_keeps_owner(st, binding) == add_shortcut(st, binding)

replace(st, binding) ==
    add_shortcut([st EXCEPT !.config = config_remove(st.config, binding)], binding)

(* ------------------------------ bindings ------------------------------- *)
\* A ShortcutModel of the listing: an action, the bindings that trigger it in
\* the order they were inserted, and a description.
ShortcutModel(action, bindings_of, description) ==
    [action |-> action, bindings |-> bindings_of, description |-> description]

\* The closure folded by `bindings` over one (binding, action) pair: a Spawn
\* action joins the model of its action, whose description it replaces, or
\* starts a new model; any other action is passed over.
bindings_step_keeps_description(slab, entry) ==
    IF entry.action.kind # "Spawn" THEN slab
    ELSE LET description == IF entry.binding.description # None
                                THEN Unwrap(entry.binding.description)
                                ELSE entry.action.task
             found == { i \in 1..Len(slab) : slab[i].action = entry.action }
             first == CHOOSE i \in found : \A j \in found : i <= j
         IN IF found # {}
              THEN [slab EXCEPT ![first].bindings = Append(@, entry.binding)]
              ELSE Append(slab, ShortcutModel(entry.action, <<entry.binding>>, description))

bindings_step(slab, entry) ==
    IF entry.action.kind # "Spawn" THEN slab
    ELSE LET description == IF entry.binding.description # None
                                THEN Unwrap(entry.binding.description)
                                ELSE entry.action.task
             found == { i \in 1..Len(slab) : slab[i].action = entry.action }
             first == CHOOSE i \in found : \A j \in found : i <= j
         IN IF found # {}
              THEN [slab EXCEPT ![first].description = description,
                                ![first].bindings = Append(@, entry.binding)]
              ELSE Append(slab, ShortcutModel(entry.action, <<entry.binding>>, description))

RECURSIVE bindings_fold(_, _)
bindings_fold(slab, keybindings) ==
    IF keybindings = <<>> THEN slab
    ELSE bindings_fold(bindings_step(slab, Head(keybindings)), Tail(keybindings))

\* fn bindings: the listing built from the configuration in iteration order.
\* The slab it returns is only inserted into, so its keys are 0..n-1 and it is
\* a sequence here.
bindings(keybindings) == bindings_fold(<<>>, keybindings)

\* Model::on_enter: the listing is rebuilt from the configuration
on_enter(cfg) == bindings(cfg)

\* Page::dialog: the pending conflict the replace dialog presents, if any
dialog(queue) == IF queue # <<>> THEN Some(queue[Len(queue)]) ELSE None

Init ==
    /\ config \in InitConfigs
    /\ submitted = FALSE
    /\ queued_by = <<>>
    /\ shortcut_models = on_enter(config)
    /\ replace_dialog = <<>>
    /\ active = FALSE
    /\ editing = None
    /\ name = <<>>
    /\ task = <<>>
    /\ keys = SlabNew
    /\ panicked = FALSE
    /\ opens = 0
    /\ last = Handled("Init", "none", NoSnapshot)

\* The messages of the draft are sent by the widgets of the drawer, which
\* Page::context_drawer renders only while the draft is active.

\* Message::TaskInput(text)
TaskInput ==
    /\ active /\ ~panicked
    /\ \E text \in TaskInputs : task' = text
    /\ last' = Handled("TaskInput", "set", NoSnapshot)
    /\ UNCHANGED <<config, replace_dialog, active, editing, name, keys, panicked, opens,
                 submitted, queued_by, shortcut_models>>

\* Message::NameInput(text)
NameInput ==
    /\ active /\ ~panicked
    /\ \E text \in NameInputs : name' = text
    /\ last' = Handled("NameInput", "set", NoSnapshot)
    /\ UNCHANGED <<config, replace_dialog, active, editing, task, keys, panicked, opens,
                 submitted, queued_by, shortcut_models>>

\* Message::KeyInput(id, text), sent by the input of the row being edited
KeyInput ==
    /\ active /\ ~panicked
    /\ \E id \in SlabKeys(keys), text \in KeyTexts :
            /\ editing = Some(id)
            /\ keys' = SlabSet(keys, id, text)
    /\ last' = Handled("KeyInput", "set", NoSnapshot)
    /\ UNCHANGED <<config, replace_dialog, active, editing, name, task, panicked, opens,
                 submitted, queued_by, shortcut_models>>

\* Page::add_keybinding: the slab and the editing marker it leaves
add_keybinding_always_allocates(slab, marker) ==
    [keys |-> SlabInsert(slab, <<>>), editing |-> Some(SlabVacantKey(slab)),
     path |-> "allocated"]

add_keybinding_keeps_marker(slab, marker) ==
    LET failing == { k \in SlabKeys(slab) : ~from_str(SlabGet(slab, k)).ok }
        first == CHOOSE k \in failing : \A j \in failing : k <= j
    IN IF failing # {}
         THEN [keys |-> SlabSet(slab, first, <<>>), editing |-> marker,
               path |-> "reused"]
         ELSE [keys |-> SlabInsert(slab, <<>>), editing |-> marker,
               path |-> "allocated"]

add_keybinding(slab, marker) ==
    LET failing == { k \in SlabKeys(slab) : ~from_str(SlabGet(slab, k)).ok }
        first == CHOOSE k \in failing : \A j \in failing : k <= j
    IN IF failing # {}
         THEN [keys |-> SlabSet(slab, first, <<>>), editing |-> marker,
               path |-> "reused"]
         ELSE [keys |-> SlabInsert(slab, <<>>), editing |-> Some(SlabVacantKey(slab)),
               path |-> "allocated"]

\* no more than MaxRows rows are allocated
RowsBounded(slab) == slab.len <= MaxRows

\* Message::AddKeybinding
AddKeybinding ==
    /\ active /\ ~panicked
    /\ LET r == add_keybinding(keys, editing)
       IN /\ RowsBounded(r.keys)
          /\ keys' = r.keys
          /\ editing' = r.editing
          /\ last' = Handled("AddKeybinding", r.path, Snapshot)
    /\ UNCHANGED <<config, replace_dialog, active, name, task, panicked, opens,
                 submitted, queued_by, shortcut_models>>

\* Message::KeyEditing(id, enable)
KeyEditing ==
    /\ active /\ ~panicked
    /\ \E id \in SlabKeys(keys), enable \in BOOLEAN :
          IF enable
            THEN /\ editing' = Some(id)
                 /\ keys' = keys
                 /\ last' = Handled("KeyEditing", "begin", NoSnapshot)
          ELSE IF editing = Some(id)
            THEN LET r == add_keybinding(keys, editing)
                 IN /\ RowsBounded(r.keys)
                    /\ keys' = r.keys
                    /\ editing' = None
                    /\ last' = Handled("KeyEditing", r.path, Snapshot)
          ELSE /\ UNCHANGED <<editing, keys>>
               /\ last' = Handled("KeyEditing", "ignored", Snapshot)
    /\ UNCHANGED <<config, replace_dialog, active, name, task, panicked, opens,
                 submitted, queued_by, shortcut_models>>

\* Message::AddShortcut.  Model::on_enter, which ends the handler, rebuilds
\* the listing from the configuration.
AddShortcut ==
    /\ active /\ ~panicked
    /\ IF fields_empty(name, task)
         THEN /\ last' = Handled("AddShortcut", "empty_field", Snapshot)
              /\ UNCHANGED <<config, replace_dialog, active, submitted, queued_by,
                             shortcut_models>>
         ELSE LET r == SubmitRows(Rows(keys), config, replace_dialog, <<>>)
                  st == AddAll([active |-> active, config |-> config,
                                queue |-> r.queue, name |-> name, task |-> task],
                               r.addable)
              IN /\ Len(r.queue) <= MaxQueue
                 /\ replace_dialog' = r.queue
                 /\ queued_by' = queued_by \o
                        [i \in 1..(Len(r.queue) - Len(replace_dialog)) |->
                            [name |-> name, task |-> task]]
                 /\ IF r.aborted
                      THEN /\ last' = Handled("AddShortcut", "invalid_row", Snapshot)
                           /\ UNCHANGED <<config, active, submitted, shortcut_models>>
                      ELSE /\ config' = st.config
                           /\ active' = st.active
                           /\ submitted' = TRUE
                           /\ shortcut_models' = on_enter(st.config)
                           /\ last' = Handled("AddShortcut", "validated", Snapshot)
    /\ UNCHANGED <<editing, name, task, keys, panicked, opens>>

\* Message::EditCombination
EditCombination ==
    /\ active /\ ~panicked
    /\ IF SlabKeys(keys) # {}
         THEN editing' = Some(CHOOSE k \in SlabKeys(keys) : \A j \in SlabKeys(keys) : k <= j)
         ELSE editing' = editing
    /\ last' = Handled("EditCombination", "set", NoSnapshot)
    /\ UNCHANGED <<config, replace_dialog, active, name, task, keys, panicked, opens,
                 submitted, queued_by, shortcut_models>>

\* Message::NameSubmit: only a focus request
NameSubmit ==
    /\ active /\ ~panicked
    /\ last' = Handled("NameSubmit",
                       IF trim(name) # <<>> THEN "focus" ELSE "ignored", NoSnapshot)
    /\ UNCHANGED <<config, replace_dialog, active, editing, name, task, keys, panicked, opens,
                 submitted, queued_by, shortcut_models>>

\* Message::ReplaceApply
ReplaceApply ==
    /\ ~panicked
    /\ IF replace_dialog # <<>>
         THEN LET top == replace_dialog[Len(replace_dialog)]
                  st == replace([active |-> active, config |-> config,
                                 queue |-> pop(replace_dialog),
                                 name |-> name, task |-> task],
                                top[1])
              IN /\ replace_dialog' = pop(replace_dialog)
                 /\ config' = st.config
                 /\ active' = st.active
                 /\ shortcut_models' = IF pop(replace_dialog) = <<>>
                                          THEN on_enter(st.config)
                                          ELSE shortcut_models
                 /\ queued_by' = pop(queued_by)
                 /\ last' = Handled("ReplaceApply", "popped", Snapshot)
         ELSE /\ last' = Handled("ReplaceApply", "empty", Snapshot)
              /\ UNCHANGED <<config, replace_dialog, active, queued_by, shortcut_models>>
    /\ UNCHANGED <<editing, name, task, keys, panicked, opens, submitted>>

\* Message::ReplaceCancel with the popped binding also removed from its owner
ReplaceCancelRemoves ==
    /\ ~panicked
    /\ IF replace_dialog # <<>>
         THEN /\ replace_dialog' = pop(replace_dialog)
              /\ config' = config_remove(config, replace_dialog[Len(replace_dialog)][1])
              /\ queued_by' = pop(queued_by)
              /\ last' = Handled("ReplaceCancel", "popped", Snapshot)
         ELSE /\ UNCHANGED <<replace_dialog, config, queued_by>>
              /\ last' = Handled("ReplaceCancel", "empty", Snapshot)
    /\ shortcut_models' = IF replace_dialog' = <<>> THEN on_enter(config')
                                                   ELSE shortcut_models
    /\ UNCHANGED <<active, editing, name, task, keys, panicked, opens, submitted>>

\* Message::ReplaceCancel
ReplaceCancel ==
    /\ ~panicked
    /\ IF replace_dialog # <<>>
         THEN /\ replace_dialog' = pop(replace_dialog)
              /\ queued_by' = pop(queued_by)
              /\ last' = Handled("ReplaceCancel", "popped", Snapshot)
         ELSE /\ UNCHANGED <<replace_dialog, queued_by>>
              /\ last' = Handled("ReplaceCancel", "empty", Snapshot)
    /\ shortcut_models' = IF replace_dialog' = <<>> THEN on_enter(config)
                                                   ELSE shortcut_models
    /\ UNCHANGED <<config, active, editing, name, task, keys, panicked, opens, submitted>>

\* Message::Shortcut(ShortcutMessage::ShowShortcut(..)): the draft is closed
Shortcut ==
    /\ ~panicked
    /\ active' = FALSE
    /\ last' = Handled("Shortcut", "show", NoSnapshot)
    /\ UNCHANGED <<config, replace_dialog, editing, name, task, keys, panicked, opens,
                 submitted, queued_by, shortcut_models>>

\* AddShortcut::enable on the rows: all rows but one are removed from the
\* tail and the text of row 0 is cleared
RECURSIVE RemoveTail(_)
RemoveTail(r) ==
    IF r.panicked \/ r.keys.len <= 1 THEN r
    ELSE IF SlabContains(r.keys, r.keys.len - 1)
        THEN RemoveTail([keys |-> SlabRemove(r.keys, r.keys.len - 1), panicked |-> FALSE])
        ELSE [keys |-> r.keys, panicked |-> TRUE]

enable_keeps_text(slab) ==
    IF slab.len = 0
        THEN [keys |-> SlabInsert(slab, <<>>), panicked |-> FALSE]
    ELSE LET r == RemoveTail([keys |-> slab, panicked |-> FALSE])
         IN IF r.panicked \/ ~SlabContains(r.keys, 0)
              THEN [keys |-> r.keys, panicked |-> TRUE]
              ELSE [keys |-> r.keys, panicked |-> FALSE]

enable(slab) ==
    IF slab.len = 0
        THEN [keys |-> SlabInsert(slab, <<>>), panicked |-> FALSE]
    ELSE LET r == RemoveTail([keys |-> slab, panicked |-> FALSE])
         IN IF r.panicked \/ ~SlabContains(r.keys, 0)
              THEN [keys |-> r.keys, panicked |-> TRUE]
              ELSE [keys |-> SlabSet(r.keys, 0, <<>>), panicked |-> FALSE]

\* Message::ShortcutContext; the draft is opened no more than MaxOpens times
ShortcutContext ==
    /\ ~panicked
    /\ opens < MaxOpens
    /\ opens' = opens + 1
    /\ active' = TRUE
    /\ name' = <<>>
    /\ task' = <<>>
    /\ keys' = enable(keys).keys
    /\ panicked' = enable(keys).panicked
    /\ submitted' = FALSE
    /\ last' = Handled("ShortcutContext", "opened", Snapshot)
    /\ UNCHANGED <<config, replace_dialog, editing, queued_by, shortcut_models>>

Next ==
    \/ TaskInput
    \/ NameInput
    \/ KeyInput
    \/ KeyEditing
    \/ AddKeybinding
    \/ AddShortcut
    \/ EditCombination
    \/ NameSubmit
    \/ ReplaceApply
    \/ ReplaceCancel
    \/ Shortcut
    \/ ShortcutContext

Spec == Init /\ [][Next]_vars

\* Message::NameInput(text) with a name of whitespace only
NameInputBlank ==
    /\ active /\ ~panicked
    /\ name' = <<" ">>
    /\ last' = Handled("NameInput", "set", NoSnapshot)
    /\ UNCHANGED <<config, replace_dialog, active, editing, task, keys, panicked, opens,
                 submitted, queued_by, shortcut_models>>

\* Message::ShortcutContext of a draft that was never opened
FirstOpen == opens = 0 /\ ShortcutContext

\* One session of the draft, in which names of whitespace only are typed too
NextBlank ==
    \/ TaskInput
    \/ NameInput
    \/ NameInputBlank
    \/ KeyInput
    \/ KeyEditing
    \/ AddKeybinding
    \/ AddShortcut
    \/ EditCombination
    \/ NameSubmit
    \/ ReplaceApply
    \/ ReplaceCancel
    \/ Shortcut
    \/ FirstOpen

SpecBlank == Init /\ [][NextBlank]_vars

(* ----------------------- rebuilding the listing ------------------------ *)
\* the bindings, descriptions and actions of the configurations the listing
\* is rebuilt from
EntryBindings ==
    { from_str(text).binding : text \in { <<"Super", "l">>, <<"k">>, <<"l">> } }

EntryDescriptions == { None, Some(<<"n">>), Some(<<"m">>) }

EntryActions == { Spawn(<<"t">>), Spawn(<<"u">>), SystemAction }

\* The configurations of at most n entries in iteration order; a
\* configuration maps a binding to one action, so no binding comes twice.
RECURSIVE Keybindings(_)
Keybindings(n) ==
    IF n = 0 THEN { <<>> }
    ELSE LET shorter == Keybindings(n - 1)
         IN shorter \cup
            UNION { { Append(cfg, Entry([b EXCEPT !.description = d], a)) :
                        b \in { x \in EntryBindings :
                                    \A i \in 1..Len(cfg) : ~SameBinding(cfg[i].binding, x) },
                        d \in EntryDescriptions,
                        a \in EntryActions } :
                    cfg \in { c \in shorter : Len(c) = n - 1 } }

\* a page constructed on some configuration and not entered yet
InitBindings ==
    /\ config \in Keybindings(MaxEntries)
    /\ replace_dialog = <<>>
    /\ active = FALSE
    /\ editing = None
    /\ name = <<>>
    /\ task = <<>>
    /\ keys = SlabNew
    /\ panicked = FALSE
    /\ opens = 0
    /\ submitted = FALSE
    /\ queued_by = <<>>
    /\ shortcut_models = <<>>
    /\ last = Handled("Init", "none", NoSnapshot)

\* Page::on_enter
PageOnEnter ==
    /\ shortcut_models' = on_enter(config)
    /\ last' = Handled("on_enter", "rebuilt", NoSnapshot)
    /\ UNCHANGED <<config, replace_dialog, active, editing, name, task, keys, panicked,
                   opens, submitted, queued_by>>

NextBindings == PageOnEnter

SpecBindings == InitBindings /\ [][NextBindings]_vars

(* ------------------------------ properties ----------------------------- *)
\* the binding -> action mapping of a configuration
Mapping(cfg) == { <<KeyOf(cfg[i].binding), cfg[i].action>> : i \in 1..Len(cfg) }

\* the bindings an action owns
OwnedBy(cfg, action) ==
    { KeyOf(cfg[i].binding) : i \in { j \in 1..Len(cfg) : cfg[j].action = action } }

\* a text of whitespace only, or empty
IsBlank(s) == \A i \in 1..Len(s) : s[i] = " "

\* the texts of the rows the last handler started from
PreRows == Rows(last.pre.keys)

\* the last message was a submit, handled from the recorded state
Submitted == last.msg = "AddShortcut" /\ last.pre.recorded

\* name and command of the recorded draft are non-empty after trimming
PreFieldsFilled == ~IsBlank(last.pre.name) /\ ~IsBlank(last.pre.task)

\* a non-empty row text that does not parse to a set binding
RowFails(text) ==
    /\ text # <<>>
    /\ ~from_str(text).ok \/ ~is_set(from_str(text).binding)

SomeRowFails(rows) == \E i \in 1..Len(rows) : RowFails(rows[i])

\* the identity of the binding a row text parses to
RowBinding(text) == KeyOf(from_str(text).binding)

\* the actions that own a binding in a configuration
Owners(cfg, b) == { pair[2] : pair \in { q \in Mapping(cfg) : q[1] = b } }

\* the bindings of the non-empty rows, those among them that had no owner
\* when the submit started, and those that had one
PreRowBindings ==
    { RowBinding(PreRows[i]) : i \in { j \in 1..Len(PreRows) : PreRows[j] # <<>> } }

PreUnowned == { b \in PreRowBindings : Owners(last.pre.config, b) = {} }

PreOwned == { b \in PreRowBindings : Owners(last.pre.config, b) # {} }

\* a submit that passed the validation of every row
Validated == Submitted /\ PreFieldsFilled /\ ~SomeRowFails(PreRows)

\* the action a commit made from the recorded draft creates
PreNewAction == Spawn(last.pre.task)

\* C1: a submit of a draft with name and command filled in and some non-empty
\* row that does not parse to a set binding leaves the binding -> action
\* mapping of the configuration as it was, wherever the failing row stands.
C1_AllOrNothingSubmit ==
    (Submitted /\ PreFieldsFilled /\ SomeRowFails(PreRows))
        => /\ Mapping(config) = Mapping(last.pre.config)
           /\ config = last.pre.config

\* an aborted submit whose failing row comes after a row with a free binding
C1_Witness ==
    /\ Submitted /\ PreFieldsFilled
    /\ \E i, j \in 1..Len(PreRows) :
          /\ i < j
          /\ PreRows[i] # <<>> /\ ~RowFails(PreRows[i])
          /\ RowBinding(PreRows[i]) \in PreUnowned
          /\ RowFails(PreRows[j])

\* C2: a submit that aborts because some non-empty row does not parse leaves
\* the replace queue exactly as it was before the submit.
C2_QueueUntouchedByAbortedSubmit ==
    (Submitted /\ PreFieldsFilled /\ SomeRowFails(PreRows))
        => replace_dialog = last.pre.replace_dialog

\* C3: a submit whose name or command is empty after trimming changes neither
\* the configuration, nor the replace queue, nor any field of the draft.
C3_EmptyFieldSubmitNoEffect ==
    (Submitted /\ ~PreFieldsFilled)
        => /\ config = last.pre.config
           /\ replace_dialog = last.pre.replace_dialog
           /\ name = last.pre.name
           /\ task = last.pre.task
           /\ keys = last.pre.keys
           /\ editing = last.pre.editing
           /\ active = last.pre.active

\* a submit with a name of whitespace only, a command, a row whose binding
\* has an owner and a row that does not parse
C3_Witness ==
    /\ Submitted /\ ~PreFieldsFilled
    /\ last.pre.name # <<>>
    /\ ~IsBlank(last.pre.task)
    /\ PreOwned # {}
    /\ SomeRowFails(PreRows)

\* C4: after a submit that passed validation every row binding that had no
\* owner is owned by Spawn(command), and the bindings newly owned by that
\* action are exactly the distinct free bindings of the non-empty rows; empty
\* rows neither abort the submit nor add a binding.
C4_DirectBindingsCommitted ==
    Validated
        => /\ \A b \in PreUnowned :
                /\ Owners(config, b) = { PreNewAction }
                /\ config_contains_in(config, b) = Some(PreNewAction)
           /\ OwnedBy(config, PreNewAction) \ OwnedBy(last.pre.config, PreNewAction)
                = PreUnowned
           /\ Cardinality(OwnedBy(config, PreNewAction)
                            \ OwnedBy(last.pre.config, PreNewAction))
                = Cardinality(PreUnowned)

\* a validated submit of a free binding beside an empty row
C4_Witness ==
    /\ Validated
    /\ PreUnowned # {}
    /\ \E i \in 1..Len(PreRows) : PreRows[i] = <<>>

\* the pending conflicts a submit is to queue for its rows, in row order
RECURSIVE ExpectedConflicts(_, _)
ExpectedConflicts(rows, cfg) ==
    IF rows = <<>> THEN <<>>
    ELSE LET rest == ExpectedConflicts(Tail(rows), cfg)
             b == RowBinding(Head(rows))
         IN IF Head(rows) # <<>> /\ Owners(cfg, b) # {}
              THEN << << [modifiers |-> b.modifiers, key |-> b.key, description |-> None],
                         CHOOSE a \in Owners(cfg, b) : TRUE,
                         localize_action(CHOOSE a \in Owners(cfg, b) : TRUE) >> >> \o rest
              ELSE rest

\* C5: a validated submit keeps the owner of every row binding that had one,
\* adds no entry for such a binding, appends one pending conflict per such row
\* to the replace queue, and adds entries only for bindings that had no owner.
C5_SubmitNeverOverwritesOwner ==
    Validated
        => /\ \A b \in PreOwned :
                /\ Owners(config, b) = Owners(last.pre.config, b)
                /\ config_contains_in(config, b) = config_contains_in(last.pre.config, b)
           /\ replace_dialog =
                last.pre.replace_dialog \o ExpectedConflicts(PreRows, last.pre.config)
           /\ \A pair \in Mapping(config) \ Mapping(last.pre.config) :
                Owners(last.pre.config, pair[1]) = {}

\* a validated submit of a row whose binding has an owner beside a row whose
\* binding is free
C5_Witness ==
    /\ Validated
    /\ PreOwned # {}
    /\ PreUnowned # {}
    /\ Len(replace_dialog) > Len(last.pre.replace_dialog)

\* the last message was a replace decision taken on a non-empty queue
Applied ==
    last.msg = "ReplaceApply" /\ last.pre.recorded /\ last.pre.replace_dialog # <<>>

Cancelled ==
    last.msg = "ReplaceCancel" /\ last.pre.recorded /\ last.pre.replace_dialog # <<>>

\* the pending conflict on top of the recorded queue
PreTop == last.pre.replace_dialog[Len(last.pre.replace_dialog)]

\* C6: after ReplaceApply the binding of the top pending conflict maps to the
\* new action Spawn(draft command) and no longer to the owning action.
C6_ApplyMovesBindingToNewAction ==
    Applied
        => /\ Owners(config, KeyOf(PreTop[1])) = { PreNewAction }
           /\ PreTop[2] \notin Owners(config, KeyOf(PreTop[1]))

\* C7: ReplaceCancel leaves the whole configuration as it was.
C7_CancelLeavesConfiguration ==
    (last.msg = "ReplaceCancel" /\ last.pre.recorded)
        => /\ Mapping(config) = Mapping(last.pre.config)
           /\ config = last.pre.config

\* a cancelled conflict whose binding is still with its owner while a binding
\* committed directly under a Spawn action is in the configuration
C7_Witness ==
    /\ Cancelled
    /\ Owners(config, KeyOf(PreTop[1])) = { PreTop[2] }
    /\ \E i \in 1..Len(config) :
          /\ config[i].action.kind = "Spawn"
          /\ ~SameBinding(config[i].binding, PreTop[1])

\* C8: a replace decision on a non-empty queue removes the top element alone;
\* on an empty queue it changes neither queue, configuration nor draft.
C8_QueueDrainsOnePerDecision ==
    (last.msg \in { "ReplaceApply", "ReplaceCancel" } /\ last.pre.recorded)
        => IF last.pre.replace_dialog # <<>>
             THEN /\ Len(replace_dialog) = Len(last.pre.replace_dialog) - 1
                  /\ \A i \in 1..Len(replace_dialog) :
                        replace_dialog[i] = last.pre.replace_dialog[i]
             ELSE /\ replace_dialog = <<>>
                  /\ config = last.pre.config
                  /\ name = last.pre.name
                  /\ task = last.pre.task
                  /\ keys = last.pre.keys
                  /\ editing = last.pre.editing
                  /\ active = last.pre.active

\* a decision taken on a queue of two different conflicts
C8_Witness ==
    /\ Cancelled
    /\ Len(last.pre.replace_dialog) = 2
    /\ last.pre.replace_dialog[1] # last.pre.replace_dialog[2]
    /\ Len(replace_dialog) = 1

\* C9: no binding of the configuration is owned by two different actions.
C9_GlobalBindingUniqueness ==
    \A i, j \in 1..Len(config) :
        SameBinding(config[i].binding, config[j].binding)
            => config[i].action = config[j].action

\* a replace applied after a resubmit, with two actions in the configuration
C9_Witness ==
    /\ Applied
    /\ \E i, j \in 1..Len(config) : config[i].action # config[j].action
    /\ PreTop[2].kind = "Spawn"

\* the keys of the rows whose text is empty or does not parse
FailingRows(slab) == { k \in SlabKeys(slab) : ~from_str(SlabGet(slab, k)).ok }

\* C10 as stated: at most one row of the draft is empty or fails to parse.
C10_AtMostOneBlankRow == Cardinality(FailingRows(keys)) <= 1

\* C10 as amended: a row is allocated by AddKeybinding or by the end of an
\* edit only when every existing row parses, and the row it allocates is then
\* the only one that is empty or fails to parse.
C10_RowAllocatedOnlyWhenAllParse ==
    (/\ last.msg \in { "AddKeybinding", "KeyEditing" }
     /\ last.pre.recorded
     /\ keys.len > last.pre.keys.len)
        => /\ FailingRows(last.pre.keys) = {}
           /\ Cardinality(FailingRows(keys)) = 1
           /\ FailingRows(keys) = SlabKeys(keys) \ SlabKeys(last.pre.keys)

\* a second row allocated beside a row that parses
C10_Witness ==
    /\ last.msg \in { "AddKeybinding", "KeyEditing" }
    /\ last.pre.recorded
    /\ keys.len = 2
    /\ last.pre.keys.len = 1

\* the last message opened the draft
Opened == last.msg = "ShortcutContext" /\ last.pre.recorded

\* C11: right after ShortcutContext the draft is open, name and command are
\* empty and the rows are exactly one row, whose text is empty, whatever rows
\* the draft had before.
C11_OpenResetsDraft ==
    Opened
        => /\ ~panicked
           /\ active
           /\ name = <<>>
           /\ task = <<>>
           /\ keys.len = 1
           /\ Cardinality(SlabKeys(keys)) = 1
           /\ Rows(keys) = << <<>> >>

\* a draft with a name, a command and two rows with text is opened again
C11_Witness ==
    /\ Opened
    /\ last.pre.name # <<>> /\ last.pre.task # <<>>
    /\ last.pre.keys.len = 2
    /\ \A k \in SlabKeys(last.pre.keys) : SlabGet(last.pre.keys, k) # <<>>

\* C12: right after ShortcutContext no row is being edited.
C12_OpenClearsEditing == Opened => editing = None

\* every row but row k has the text it had
OthersUnchanged(pre, post, k) ==
    \A j \in SlabKeys(pre) \ { k } : SlabContains(post, j) /\ SlabGet(post, j) = SlabGet(pre, j)

\* what addRow does to the rows: with a row that fails to parse, no row is
\* allocated and one failing row is cleared under its id; otherwise one row
\* with empty text is allocated under an id no row holds
RowsAsAddRow(pre, post) ==
    IF FailingRows(pre) # {}
      THEN /\ post.len = pre.len
           /\ SlabKeys(post) = SlabKeys(pre)
           /\ \E f \in FailingRows(pre) :
                 /\ SlabGet(post, f) = <<>>
                 /\ OthersUnchanged(pre, post, f)
      ELSE /\ post.len = pre.len + 1
           /\ Cardinality(SlabKeys(post) \ SlabKeys(pre)) = 1
           /\ SlabKeys(pre) \subseteq SlabKeys(post)
           /\ \A n \in SlabKeys(post) \ SlabKeys(pre) :
                 /\ SlabGet(post, n) = <<>>
                 /\ OthersUnchanged(pre, post, n)

\* a row that addRow allocated is the row being edited
NewRowEdited(pre, post, marker) ==
    FailingRows(pre) = {}
        => \A n \in SlabKeys(post) \ SlabKeys(pre) : marker = Some(n)

\* C13: add_keybinding allocates no row and clears one failing row while some
\* row fails to parse, and otherwise allocates one empty row under a new id
\* and marks it as the row being edited; this is what Message::AddKeybinding
\* leaves, and what the end of an edit leaves in the rows.
C13_AddRowReusesOrAllocates ==
    /\ LET r == add_keybinding(keys, editing)
       IN RowsAsAddRow(keys, r.keys) /\ NewRowEdited(keys, r.keys, r.editing)
    /\ (last.msg = "AddKeybinding" /\ last.pre.recorded)
          => /\ RowsAsAddRow(last.pre.keys, keys)
             /\ NewRowEdited(last.pre.keys, keys, editing)
    /\ (last.msg = "KeyEditing" /\ last.path \in { "reused", "allocated" })
          => RowsAsAddRow(last.pre.keys, keys)

\* AddKeybinding on two rows that both fail to parse: a row with text is
\* cleared and the other keeps its text
C13_Witness ==
    /\ last.msg = "AddKeybinding" /\ last.pre.recorded
    /\ last.pre.keys.len = 2
    /\ Cardinality(FailingRows(last.pre.keys)) = 2
    /\ \E k \in SlabKeys(keys) : SlabGet(last.pre.keys, k) # <<>> /\ SlabGet(keys, k) = <<>>
    /\ \E k \in SlabKeys(keys) : SlabGet(keys, k) # <<>>

\* the last message ended the edit of the row that was being edited
EditEnded == last.msg = "KeyEditing" /\ last.path \in { "reused", "allocated" }

\* C14: the end of the edit of the row being edited, when the text of that
\* row fails to parse, clears that row, allocates no row and leaves the other
\* rows as they were; the end of an edit of any other row changes nothing.
C14_EndEditClearsEditedRow ==
    /\ (EditEnded /\ Unwrap(last.pre.editing) \in FailingRows(last.pre.keys))
          => /\ keys.len = last.pre.keys.len
             /\ SlabGet(keys, Unwrap(last.pre.editing)) = <<>>
             /\ OthersUnchanged(last.pre.keys, keys, Unwrap(last.pre.editing))
    /\ (last.msg = "KeyEditing" /\ last.path = "ignored")
          => /\ keys = last.pre.keys
             /\ editing = last.pre.editing
             /\ config = last.pre.config
             /\ replace_dialog = last.pre.replace_dialog
             /\ active = last.pre.active
             /\ name = last.pre.name
             /\ task = last.pre.task

\* the row ids of the draft are 0..n-1 and no handler met a vacant key
IdsDense ==
    /\ ~panicked
    /\ SlabKeys(keys) = 0..(keys.len - 1)

\* a step of a session keeps every row under its id; a step that opens the
\* draft keeps row 0 and removes rows from the tail only
RowsKept ==
    IF last'.msg = "ShortcutContext"
      THEN /\ SlabKeys(keys') \subseteq 0..(keys'.len - 1)
           /\ (SlabContains(keys, 0) => SlabContains(keys', 0))
           /\ \A k \in SlabKeys(keys) \ SlabKeys(keys') :
                 \A j \in SlabKeys(keys') : j < k
      ELSE /\ SlabKeys(keys) \subseteq SlabKeys(keys')
           /\ keys'.len >= keys.len
           /\ keys'.len = Cardinality(SlabKeys(keys'))

\* C15: between two openings of the draft no row is removed and no id goes to
\* a second row; rows are removed by the opening only, from the tail; the row
\* ids are always 0..n-1, so the opening removes existing rows only and row 0
\* survives.
C15_RowIdsStable == [](IdsDense) /\ [][RowsKept]_vars

\* a row allocated in the second session under the id of a row that the
\* opening had removed from the tail
C15_Witness ==
    /\ last.msg = "AddKeybinding" /\ last.path = "allocated"
    /\ opens = 2
    /\ last.pre.keys.len = 1
    /\ Len(last.pre.keys.entries) = 2
    /\ keys.len = 2

\* the entries of a configuration that another does not hold
NewEntries(cfg, old) ==
    { cfg[i] : i \in { j \in 1..Len(cfg) :
                        \A k \in 1..Len(old) : old[k] # cfg[j] } }

\* C16: every binding committed by a validated submit or by an apply is
\* described with the trimmed name of the draft and bound to Spawn of its
\* trimmed command.
C16_CommitsTrimmedFields ==
    (Validated \/ Applied)
        => \A e \in NewEntries(config, last.pre.config) :
              /\ e.binding.description = Some(trim(last.pre.name))
              /\ e.action = Spawn(trim(last.pre.task))

\* C17: from a validated submit to the next opening, the draft is open if and
\* only if the replace queue is non-empty.
C17_DrawerOpenWhileQueued == submitted => (active <=> replace_dialog # <<>>)

\* the last message rebuilt the listing
Rebuilt == last.msg = "on_enter"

\* the Spawn actions of a configuration
SpawnActions(cfg) ==
    { cfg[i].action : i \in { j \in 1..Len(cfg) : cfg[j].action.kind = "Spawn" } }

\* the place of the last entry of an action in iteration order
LastEntryOf(cfg, action) ==
    CHOOSE i \in 1..Len(cfg) :
        /\ cfg[i].action = action
        /\ \A j \in 1..Len(cfg) : cfg[j].action = action => j <= i

\* C18: the rebuilt listing has one model per distinct Spawn action of the
\* configuration and none for another action; the bindings of a model are the
\* bindings the configuration maps to its action, each once; its description
\* is that of the last such binding in iteration order, or the command when
\* that binding has none.
C18_RebuildGroupsByAction ==
    Rebuilt
        => /\ { shortcut_models[i].action : i \in 1..Len(shortcut_models) }
                = SpawnActions(config)
           /\ Len(shortcut_models) = Cardinality(SpawnActions(config))
           /\ \A i \in 1..Len(shortcut_models) :
                LET m == shortcut_models[i]
                    lastb == config[LastEntryOf(config, m.action)].binding
                IN /\ { KeyOf(m.bindings[j]) : j \in 1..Len(m.bindings) }
                        = OwnedBy(config, m.action)
                   /\ Len(m.bindings) = Cardinality(OwnedBy(config, m.action))
                   /\ \A j \in 1..Len(m.bindings) :
                        \E k \in 1..Len(config) :
                            config[k].action = m.action /\ config[k].binding = m.bindings[j]
                   /\ m.description = IF lastb.description # None
                                         THEN Unwrap(lastb.description)
                                         ELSE m.action.task

\* a listing rebuilt from two bindings of one Spawn action, the first with a
\* description and the last without, beside a binding of another kind
C18_Witness ==
    /\ Rebuilt
    /\ \E i, j, k \in 1..Len(config) :
          /\ i < j
          /\ config[i].action = config[j].action
          /\ config[i].action.kind = "Spawn"
          /\ config[i].binding.description # None
          /\ config[j].binding.description = None
          /\ config[k].action.kind = "System"

\* C19: after a submit no entry of the replace queue is owned by the action
\* Spawn(command) that the submitting draft creates.
C19_ConflictsHaveOtherOwner ==
    (Submitted /\ PreFieldsFilled)
        => \A i \in 1..Len(replace_dialog) : replace_dialog[i][2] # PreNewAction

\* the bindings two configurations hold
BindingsOf(cfg, old) ==
    { KeyOf(cfg[i].binding) : i \in 1..Len(cfg) }
        \cup { KeyOf(old[i].binding) : i \in 1..Len(old) }

\* C20: the dialog presents the last-queued remaining conflict; a replace
\* decision removes that conflict and no other, an apply changes the owner of
\* its binding alone, and what is presented next is the conflict queued
\* before it; after a validated submit that queued conflicts the conflict of
\* the last such row is presented.
C20_DecisionsTakenAsStack ==
    /\ (Applied \/ Cancelled)
          => LET before == last.pre.replace_dialog
                 presented == Unwrap(dialog(before))
             IN /\ presented = before[Len(before)]
                /\ before = Append(replace_dialog, presented)
                /\ dialog(replace_dialog) =
                      IF Len(before) > 1 THEN Some(before[Len(before) - 1]) ELSE None
                /\ \A b \in BindingsOf(config, last.pre.config) \ { KeyOf(presented[1]) } :
                      Owners(config, b) = Owners(last.pre.config, b)
                /\ Applied => Owners(config, KeyOf(presented[1])) = { PreNewAction }
                /\ Cancelled => config = last.pre.config
    /\ (Validated /\ ExpectedConflicts(PreRows, last.pre.config) # <<>>)
          => LET queued == ExpectedConflicts(PreRows, last.pre.config)
             IN dialog(replace_dialog) = Some(queued[Len(queued)])

\* an apply on a queue of two different conflicts, the first of which is
\* presented next
C20_Witness ==
    /\ Applied
    /\ Len(last.pre.replace_dialog) = 2
    /\ last.pre.replace_dialog[1] # last.pre.replace_dialog[2]
    /\ dialog(replace_dialog) = Some(last.pre.replace_dialog[1])

\* the name and the command of the draft when the submit queued the conflict
\* that the last decision was taken on
PreQueuedBy == last.pre.queued_by[Len(last.pre.queued_by)]

\* the entries of a configuration for a binding
EntriesOf(cfg, binding) ==
    { cfg[i] : i \in { j \in 1..Len(cfg) : SameBinding(cfg[j].binding, binding) } }

\* C21: ReplaceApply binds the replaced binding to Spawn of the command, and
\* describes it with the name, that the draft had when the submit queued the
\* conflict, whatever was typed into the draft or however it was reopened
\* since.
C21_ApplyUsesSubmittedFields ==
    Applied
        => /\ EntriesOf(config, PreTop[1]) # {}
           /\ \A e \in EntriesOf(config, PreTop[1]) :
                 /\ e.action = Spawn(PreQueuedBy.task)
                 /\ e.binding.description = Some(PreQueuedBy.name)

====
